---- MODULE Spec2Model ----
(***************************************************************************)
(* Model of convert_to_word.py: the module import guard, the __main__      *)
(* block and convert_markdown_to_word.                                     *)
(*                                                                         *)
(* A Python str is a sequence of characters; a character is a             *)
(* one-character TLA+ string.  The grave accent (U+0060) cannot be written *)
(* inside a TLA+ string, so it is the value BACKTICK.  Python indices are  *)
(* 0-based: Python s[k] is s[k + 1] here, and the cursor i of the main     *)
(* loop keeps its Python value.                                            *)
(***************************************************************************)
EXTENDS Naturals, Sequences, FiniteSets, TLC

VARIABLES
    pc,          \* position of the program
    libs_ok,     \* environment: the imports of lines 11-15 succeed
    fs_md,       \* environment: the input file, [exists, content]
    fs_docx,     \* environment: the output file, [exists, blocks]
    stdout,      \* the messages printed, in order
    exit_code,   \* the status of sys.exit, 0 before any exit
    lines,       \* md_content.split of line 38
    i,           \* the cursor of the main loop
    doc,         \* the blocks appended to the document, in order
    iters        \* number of iterations of the main loop run so far

vars == <<pc, libs_ok, fs_md, fs_docx, stdout, exit_code, lines, i, doc, iters>>

----------------------------------------------------------------------------
(* Characters                                                              *)

BACKTICK == "BT"

NL == "\n"

\* the characters str.strip() removes, among those the inputs are made of
Whitespace == {" ", "\t", NL}

\* the characters of the inputs on which str.isdigit() holds
Digits == {"0", "1", "2", "3", "4", "5", "6", "7", "8", "9"}

----------------------------------------------------------------------------
(* Python str and list operations, as the code uses them                   *)

\* s[a:]
SliceFrom(s, a) == IF a >= Len(s) THEN <<>> ELSE SubSeq(s, a + 1, Len(s))

\* s[:n]
SliceTo(s, n) == IF n >= Len(s) THEN s ELSE SubSeq(s, 1, n)

\* s.startswith(p)
StartsWith(s, p) == Len(s) >= Len(p) /\ SubSeq(s, 1, Len(p)) = p

\* s.find(p) for a p that occurs in s; Len(s) stands for -1 (not found)
RECURSIVE FindFrom(_, _, _)
FindFrom(s, p, k) ==
    IF k + Len(p) > Len(s) THEN Len(s)
    ELSE IF SubSeq(s, k + 1, k + Len(p)) = p THEN k
    ELSE FindFrom(s, p, k + 1)

\* p in s
Contains(s, p) == FindFrom(s, p, 0) < Len(s)

\* s.lstrip()
RECURSIVE LStrip(_)
LStrip(s) ==
    IF s # <<>> /\ Head(s) \in Whitespace THEN LStrip(Tail(s)) ELSE s

\* s.rstrip()
RECURSIVE RStrip(_)
RStrip(s) ==
    IF s # <<>> /\ s[Len(s)] \in Whitespace
    THEN RStrip(SubSeq(s, 1, Len(s) - 1))
    ELSE s

\* s.strip()
Strip(s) == RStrip(LStrip(s))

\* s.split(c) for a one-character separator c: always at least one part
RECURSIVE SplitAcc(_, _, _)
SplitAcc(s, c, cur) ==
    IF s = <<>> THEN <<cur>>
    ELSE IF Head(s) = c THEN <<cur>> \o SplitAcc(Tail(s), c, <<>>)
    ELSE SplitAcc(Tail(s), c, Append(cur, Head(s)))

Split(s, c) == SplitAcc(s, c, <<>>)

\* s.split(sep, 1): one part when sep does not occur, otherwise two
SplitOnce(s, sep) ==
    LET k == FindFrom(s, sep, 0)
    IN  IF k < Len(s)
        THEN <<SliceTo(s, k), SliceFrom(s, k + Len(sep))>>
        ELSE <<s>>

\* a variant of Join: '\n'.join(parts)
RECURSIVE JoinNewline(_)
JoinNewline(parts) ==
    IF parts = <<>> THEN <<>>
    ELSE IF Len(parts) = 1 THEN Head(parts)
    ELSE Head(parts) \o <<NL>> \o JoinNewline(Tail(parts))

\* ''.join(parts)
RECURSIVE Join(_)
Join(parts) ==
    IF parts = <<>> THEN <<>> ELSE Head(parts) \o Join(Tail(parts))

----------------------------------------------------------------------------
(* Classification of a trimmed line: the if/elif chain of lines 45-85      *)

Fence == <<BACKTICK, BACKTICK, BACKTICK>>

NumberPrefixLen == 5

\* a variant of HeadingLevel: the first test without the space of '# '
HeadingLevelNoSpace(line) ==
    IF StartsWith(line, <<"#">>) THEN 1
    ELSE IF StartsWith(line, <<"#", "#", " ">>) THEN 2
    ELSE IF StartsWith(line, <<"#", "#", "#", " ">>) THEN 3
    ELSE IF StartsWith(line, <<"#", "#", "#", "#", " ">>) THEN 4
    ELSE 0

\* lines 50-61: the four tests in the order of the code; 0 when none matches
HeadingLevel(line) ==
    IF StartsWith(line, <<"#", " ">>) THEN 1
    ELSE IF StartsWith(line, <<"#", "#", " ">>) THEN 2
    ELSE IF StartsWith(line, <<"#", "#", "#", " ">>) THEN 3
    ELSE IF StartsWith(line, <<"#", "#", "#", "#", " ">>) THEN 4
    ELSE 0

\* line 77
IsBullet(line) ==
    StartsWith(line, <<"-", " ">>) \/ StartsWith(line, <<"*", " ">>)

\* a variant of IsNumbered: '. ' in line, without the slice [:5]
IsNumberedAnywhere(line) ==
    /\ line[1] \in Digits
    /\ Contains(line, <<".", " ">>)

\* line 81, for a line on which line[0] exists
IsNumbered(line) ==
    /\ line[1] \in Digits
    /\ Contains(SliceTo(line, NumberPrefixLen), <<".", " ">>)

\* The branch taken for a trimmed line.  "IndexError" is what line[0] of
\* line 81 raises on an empty string.
Kind(line) ==
    IF line = <<>> THEN "empty"
    ELSE IF HeadingLevel(line) > 0 THEN "heading"
    ELSE IF StartsWith(line, Fence) THEN "fence"
    ELSE IF IsBullet(line) THEN "bullet"
    ELSE IF Len(line) = 0 THEN "IndexError"
    ELSE IF IsNumbered(line) THEN "numbered"
    ELSE "paragraph"

\* a variant of FenceEnd: the cursor also steps over the closing fence
RECURSIVE FenceEndPastClose(_, _)
FenceEndPastClose(ls, k) ==
    IF k < Len(ls) /\ ~StartsWith(Strip(ls[k + 1]), Fence)
    THEN FenceEndPastClose(ls, k + 1)
    ELSE IF k < Len(ls) THEN k + 1 ELSE k

\* lines 67-69: the cursor after the inner while loop started with cursor k
RECURSIVE FenceEnd(_, _)
FenceEnd(ls, k) ==
    IF k < Len(ls) /\ ~StartsWith(Strip(ls[k + 1]), Fence)
    THEN FenceEnd(ls, k + 1)
    ELSE k

\* lines 65-69: code_lines, the raw lines ls[from .. to - 1]
CodeLines(ls, from, to) == SubSeq(ls, from + 1, to)

----------------------------------------------------------------------------
(* The document: a sequence of blocks.  A block has a style, a heading     *)
(* level (0 when it is no heading), its runs, and at, the value of the     *)
(* cursor when the iteration that appended it began.  A run has a text and *)
(* a font, "default" when the code sets none.                              *)

Run(text, font) == [text |-> text, font |-> font]

\* Document.add_paragraph(text, style): a run only for a non-empty text
AddParagraph(text, style, at) ==
    [style |-> style, level |-> 0, at |-> at,
     runs |-> IF text = <<>> THEN <<>> ELSE <<Run(text, "default")>>]

\* Document.add_heading(text, level)
AddHeading(text, level, at) ==
    [style |-> "Heading", level |-> level, at |-> at,
     runs |-> IF text = <<>> THEN <<>> ELSE <<Run(text, "default")>>]

\* lines 71-75: the code block, every run of it set to Courier New
CodeBlock(code_lines, at) ==
    LET p == AddParagraph(Join(code_lines), "No Spacing", at)
    IN  [p EXCEPT !.runs = [k \in DOMAIN p.runs |->
                               Run(p.runs[k].text, "Courier New")]]

\* a variant of ParagraphRuns: the part after an unmatched backtick is plain
ParagraphRunsUnmatchedPlain(line) ==
    LET parts == Split(line, BACKTICK)
    IN  [j \in 1..Len(parts) |->
            Run(parts[j],
                IF (j - 1) % 2 = 0 \/ j = Len(parts)
                THEN "default" ELSE "Courier New")]

\* a variant of ParagraphRuns: no run for an empty part
ParagraphRunsSkipEmpty(line) ==
    LET parts == Split(line, BACKTICK)
        RECURSIVE runs(_)
        runs(j) ==
            IF j > Len(parts) THEN <<>>
            ELSE (IF parts[j] = <<>> THEN <<>>
                  ELSE <<Run(parts[j],
                             IF (j - 1) % 2 = 0 THEN "default" ELSE "Courier New")>>)
                 \o runs(j + 1)
    IN  runs(1)

\* lines 88-96: one run per part of line.split(BACKTICK), odd parts in
\* Courier New
ParagraphRuns(line) ==
    LET parts == Split(line, BACKTICK)
    IN  [j \in 1..Len(parts) |->
            Run(parts[j], IF (j - 1) % 2 = 0 THEN "default" ELSE "Courier New")]

\* lines 87-96
ParagraphBlock(line, at) ==
    [style |-> "Normal", level |-> 0, at |-> at, runs |-> ParagraphRuns(line)]

\* the text of a block: its runs' texts in order
RECURSIVE RunsText(_)
RunsText(runs) ==
    IF runs = <<>> THEN <<>> ELSE Head(runs).text \o RunsText(Tail(runs))

BlockText(b) == RunsText(b.runs)

----------------------------------------------------------------------------
(* The inputs: the content of the input file                               *)

MaxLines == 4

\* '\n'.join(ls): the file content whose split of line 38 is ls
RECURSIVE JoinLines(_)
JoinLines(ls) ==
    IF Len(ls) = 1 THEN ls[1] ELSE ls[1] \o <<NL>> \o JoinLines(Tail(ls))

\* what a line may start with
Prefixes ==
    { <<>>,
      <<"#", " ">>, <<"#", "#", " ">>, <<"#", "#", "#", " ">>,
      <<"#", "#", "#", "#", " ">>, <<"#", "#", "#", "#", "#", " ">>,
      <<"#">>, <<"#", "#", "#", "#">>,
      Fence, <<BACKTICK, BACKTICK>>,
      <<"-", " ">>, <<"*", " ">>, <<"-">>,
      <<"1", ".", " ">>, <<"1", "0", ".", " ">>, <<"1", "2", "3", ".", " ">>,
      <<"1", "2", "3", "4", ".", " ">>, <<"1", "2", "3", "4", "5", ".", " ">>,
      <<"3", ".", "1">>, <<"a", ".", " ">> }

\* what may follow
Bodies ==
    { <<>>, <<"a">>,
      <<"a", BACKTICK, "b">>, <<"a", BACKTICK, "b", BACKTICK, "c">>,
      <<BACKTICK, "a", BACKTICK>>, <<"x", ".", " ", "y", ".", " ", "z">> }

\* single lines: every prefix with every body, bare or padded with whitespace
LineCorpus ==
    { ld \o p \o b \o tr :
        ld \in {<<>>, <<" ">>}, p \in Prefixes, b \in Bodies,
        tr \in {<<>>, <<"\t">>} }

\* the lines of the inputs of several lines
BlockCorpus ==
    { <<>>, Fence, <<" ">> \o Fence \o <<"p", "y">>, <<"a">>,
      <<" ", "b", " ">>, <<"#", " ", "a">>, <<"-", " ", "a">> }

RECURSIVE SeqsOf(_, _)
SeqsOf(S, n) ==
    IF n = 0 THEN {<<>>}
    ELSE {Append(q, x) : q \in SeqsOf(S, n - 1), x \in S}

Inputs ==
    {<<l>> : l \in LineCorpus}
        \cup UNION {SeqsOf(BlockCorpus, n) : n \in 1..MaxLines}

Contents == {JoinLines(ls) : ls \in Inputs}

----------------------------------------------------------------------------
(* The program                                                             *)

NoFile == [exists |-> FALSE, content |-> <<>>]

NoDocx == [exists |-> FALSE, blocks |-> <<>>]

Init ==
    /\ pc = "import"
    /\ libs_ok \in BOOLEAN
    /\ fs_md \in {NoFile} \cup {[exists |-> TRUE, content |-> c] : c \in Contents}
    /\ fs_docx = NoDocx
    /\ stdout = <<>>
    /\ exit_code = 0
    /\ lines = <<>>
    /\ i = 0
    /\ doc = <<>>
    /\ iters = 0

\* lines 10-15: the imports succeed
ImportOk ==
    /\ pc = "import"
    /\ libs_ok
    /\ pc' = "main"
    /\ UNCHANGED <<libs_ok, fs_md, fs_docx, stdout, exit_code, lines, i, doc, iters>>

\* lines 16-19: ImportError
ImportFail ==
    /\ pc = "import"
    /\ ~libs_ok
    /\ stdout' = stdout \o <<"Error: Required packages not installed.",
                             "Please install: pip install python-docx markdown">>
    /\ exit_code' = 1
    /\ pc' = "exit"
    /\ UNCHANGED <<libs_ok, fs_md, fs_docx, lines, i, doc, iters>>

\* a variant of MissingInput: the error is printed without sys.exit(1)
MissingInputNoExit ==
    /\ pc = "main"
    /\ ~fs_md.exists
    /\ stdout' = Append(stdout, "Error: BONZAI_COMPREHENSIVE_SUMMARY.md not found")
    /\ pc' = "convert"
    /\ UNCHANGED <<libs_ok, fs_md, fs_docx, exit_code, lines, i, doc, iters>>

\* lines 103-109: the input file does not exist
MissingInput ==
    /\ pc = "main"
    /\ ~fs_md.exists
    /\ stdout' = Append(stdout, "Error: BONZAI_COMPREHENSIVE_SUMMARY.md not found")
    /\ exit_code' = 1
    /\ pc' = "exit"
    /\ UNCHANGED <<libs_ok, fs_md, fs_docx, lines, i, doc, iters>>

\* lines 107, 111: the check passes and convert_markdown_to_word is called
CallConvert ==
    /\ pc = "main"
    /\ fs_md.exists
    /\ pc' = "convert"
    /\ UNCHANGED <<libs_ok, fs_md, fs_docx, stdout, exit_code, lines, i, doc, iters>>

\* lines 25-40: read the file, create the document, split, i = 0
ReadInput ==
    /\ pc = "convert"
    /\ lines' = Split(fs_md.content, NL)
    /\ doc' = <<>>
    /\ i' = 0
    /\ pc' = "loop"
    /\ UNCHANGED <<libs_ok, fs_md, fs_docx, stdout, exit_code, iters>>

\* line 41 holds and line 42: the trimmed line under the cursor
InLoop == pc = "loop" /\ i < Len(lines)

line == Strip(lines[i + 1])

\* a variant of SkipEmpty: the blank line is skipped without i += 1
SkipEmptyNoAdvance ==
    /\ InLoop
    /\ Kind(line) = "empty"
    /\ iters' = iters + 1
    /\ UNCHANGED <<pc, libs_ok, fs_md, fs_docx, stdout, exit_code, lines, i, doc>>

\* lines 45-47
SkipEmpty ==
    /\ InLoop
    /\ Kind(line) = "empty"
    /\ i' = i + 1
    /\ iters' = iters + 1
    /\ UNCHANGED <<pc, libs_ok, fs_md, fs_docx, stdout, exit_code, lines, doc>>

\* lines 50-61
Heading ==
    /\ InLoop
    /\ Kind(line) = "heading"
    /\ LET n == HeadingLevel(line)
       IN  doc' = Append(doc, AddHeading(SliceFrom(line, n + 1), n, i))
    /\ i' = i + 1
    /\ iters' = iters + 1
    /\ UNCHANGED <<pc, libs_ok, fs_md, fs_docx, stdout, exit_code, lines>>

\* a variant of CodeFence: the block is added without the test of line 70
CodeFenceAlwaysEmits ==
    /\ InLoop
    /\ Kind(line) = "fence"
    /\ LET end == FenceEnd(lines, i + 1)
           code_lines == CodeLines(lines, i + 1, end)
       IN  /\ i' = end
           /\ doc' = Append(doc, CodeBlock(code_lines, i))
    /\ iters' = iters + 1
    /\ UNCHANGED <<pc, libs_ok, fs_md, fs_docx, stdout, exit_code, lines>>

\* lines 63-75
CodeFence ==
    /\ InLoop
    /\ Kind(line) = "fence"
    /\ LET end == FenceEnd(lines, i + 1)
           code_lines == CodeLines(lines, i + 1, end)
       IN  /\ i' = end
           /\ doc' = IF code_lines # <<>>
                     THEN Append(doc, CodeBlock(code_lines, i))
                     ELSE doc
    /\ iters' = iters + 1
    /\ UNCHANGED <<pc, libs_ok, fs_md, fs_docx, stdout, exit_code, lines>>

\* lines 77-79
Bullet ==
    /\ InLoop
    /\ Kind(line) = "bullet"
    /\ doc' = Append(doc, AddParagraph(SliceFrom(line, 2), "List Bullet", i))
    /\ i' = i + 1
    /\ iters' = iters + 1
    /\ UNCHANGED <<pc, libs_ok, fs_md, fs_docx, stdout, exit_code, lines>>

\* lines 81-83
Numbered ==
    /\ InLoop
    /\ Kind(line) = "numbered"
    /\ doc' = Append(doc, AddParagraph(SplitOnce(line, <<".", " ">>)[2],
                                       "List Number", i))
    /\ i' = i + 1
    /\ iters' = iters + 1
    /\ UNCHANGED <<pc, libs_ok, fs_md, fs_docx, stdout, exit_code, lines>>

\* lines 85-97
Paragraph ==
    /\ InLoop
    /\ Kind(line) = "paragraph"
    /\ doc' = Append(doc, ParagraphBlock(line, i))
    /\ i' = i + 1
    /\ iters' = iters + 1
    /\ UNCHANGED <<pc, libs_ok, fs_md, fs_docx, stdout, exit_code, lines>>

\* lines 41, 99-101: the loop is over, save and report
Save ==
    /\ pc = "loop"
    /\ ~(i < Len(lines))
    /\ fs_docx' = [exists |-> TRUE, blocks |-> doc]
    /\ stdout' = Append(stdout, "Successfully converted BONZAI_COMPREHENSIVE_SUMMARY.md to BONZAI_COMPREHENSIVE_SUMMARY.docx")
    /\ pc' = "done"
    /\ UNCHANGED <<libs_ok, fs_md, exit_code, lines, i, doc, iters>>

Next ==
    \/ ImportOk
    \/ ImportFail
    \/ MissingInput
    \/ CallConvert
    \/ ReadInput
    \/ SkipEmpty
    \/ Heading
    \/ CodeFence
    \/ Bullet
    \/ Numbered
    \/ Paragraph
    \/ Save

Spec == Init /\ [][Next]_vars

\* the interpreter runs the program to its end: no step is postponed forever
FairSpec == Spec /\ WF_vars(Next)

----------------------------------------------------------------------------
(* The vocabulary of the properties, stated on the characters of a line    *)
(* and not through the operations of the program                          *)

\* the trimmed line t starts with exactly n '#' and then a space
ExactlyHashes(t, n) ==
    /\ Len(t) >= n + 1
    /\ \A k \in 1..n : t[k] = "#"
    /\ t[n + 1] = " "

\* the trimmed line t begins with three backticks
FenceRule(t) == Len(t) >= 3 /\ \A k \in 1..3 : t[k] = BACKTICK

\* the trimmed line t begins with "- " or "* "
BulletRule(t) == Len(t) >= 2 /\ t[1] \in {"-", "*"} /\ t[2] = " "

\* the first character of t is a digit and ". " lies within its first 5
NumberedRule(t) ==
    /\ Len(t) >= 1
    /\ t[1] \in Digits
    /\ \E k \in 1..4 : k + 1 <= Len(t) /\ t[k] = "." /\ t[k + 1] = " "

\* t without its first n characters
DropFirst(t, n) == [k \in 1..(Len(t) - n) |-> t[k + n]]

\* everything after the first ". " of t
AfterDotSpace(t) ==
    LET at(k) == k + 1 <= Len(t) /\ t[k] = "." /\ t[k + 1] = " "
        first == CHOOSE k \in 1..Len(t) : at(k) /\ \A m \in 1..(k - 1) : ~at(m)
    IN  DropFirst(t, first + 1)

\* the number of backticks of t, and t without them
Backticks(t) == Cardinality({k \in 1..Len(t) : t[k] = BACKTICK})

NoBackticks(t) == SelectSeq(t, LAMBDA c : c # BACKTICK)

\* what follows the last backtick of t
AfterLastBacktick(t) ==
    LET last == CHOOSE k \in 1..Len(t) :
                    t[k] = BACKTICK /\ \A m \in (k + 1)..Len(t) : t[m] # BACKTICK
    IN  DropFirst(t, last)

\* the raw line k (0-based) is a fence line: backticks after leading blanks
FenceAt(k) ==
    \E a \in 1..Len(lines[k + 1]) :
        /\ \A b \in 1..(a - 1) : lines[k + 1][b] \in Whitespace
        /\ a + 2 <= Len(lines[k + 1])
        /\ \A b \in a..(a + 2) : lines[k + 1][b] = BACKTICK

\* the number of body lines of a fence opened at line k: the lines after k up
\* to the next fence line or the end of the input
BodyCount(k) ==
    CHOOSE n \in 0..Len(lines) :
        /\ k + n < Len(lines)
        /\ \A m \in (k + 1)..(k + n) : ~FenceAt(m)
        /\ (k + n + 1 = Len(lines) \/ FenceAt(k + n + 1))

\* the raw lines a..b (0-based) one after the other
RECURSIVE RawText(_, _)
RawText(a, b) == IF a > b THEN <<>> ELSE lines[a + 1] \o RawText(a + 1, b)

\* this step appends exactly one block and keeps the others
AppendsOne == Len(doc') = Len(doc) + 1 /\ SubSeq(doc', 1, Len(doc)) = doc

Appended == doc'[Len(doc')]

\* the trimmed line block b was made from
LineOf(b) == Strip(lines[b.at + 1])

Blocks == {doc[k] : k \in 1..Len(doc)}

----------------------------------------------------------------------------
(* C1 *)

\* C1: when the fence opened at the cursor is closed by a later fence line,
\* the step of the opening fence consumes that closing line: the cursor after
\* the step is past it, so it cannot open a new fence.
C1_ClosingFenceConsumed ==
    [][(InLoop /\ FenceRule(line) /\ i + BodyCount(i) + 1 < Len(lines))
          => i' > i + BodyCount(i) + 1]_vars

----------------------------------------------------------------------------
(* C2 *)

OddBackticks(b) == b.style = "Normal" /\ Backticks(LineOf(b)) % 2 = 1

\* C2 as stated: in a paragraph made from a line with an odd number of
\* backticks, the run of the text after the last backtick is plain text.
C2_UnmatchedTailPlain ==
    \A b \in Blocks : OddBackticks(b) => b.runs[Len(b.runs)].font = "default"

\* C2 amended: in a paragraph made from a line with an odd number of
\* backticks, the run of the text after the last backtick is an inline-code
\* (Courier New) run, and the paragraph is emitted (no error is raised).
C2_UnmatchedTailCode ==
    \A b \in Blocks :
        OddBackticks(b) =>
            /\ b.runs[Len(b.runs)].font = "Courier New"
            /\ b.runs[Len(b.runs)].text = AfterLastBacktick(LineOf(b))

C2_Witness ==
    /\ pc = "done"
    /\ \E b \in Blocks : OddBackticks(b) /\ AfterLastBacktick(LineOf(b)) # <<>>

----------------------------------------------------------------------------
(* C3 *)

HeadingAppended(n) ==
    AppendsOne /\ Appended.style = "Heading" /\ Appended.level = n

\* C3: on every line the main loop classifies and for every N in 1..4, a
\* heading of level N is appended iff the trimmed line starts with exactly N
\* '#' and a space, and its text is the trimmed line without these N + 1
\* characters; five or more '#' append no heading.
C3_HeadingIff ==
    [][InLoop =>
          /\ \A n \in 1..4 :
                /\ ExactlyHashes(line, n) <=> HeadingAppended(n)
                /\ ExactlyHashes(line, n) =>
                       BlockText(Appended) = DropFirst(line, n + 1)
          /\ (\A n \in 1..4 : ~ExactlyHashes(line, n)) =>
                 ~(AppendsOne /\ Appended.style = "Heading")]_vars

C3_Witness ==
    /\ pc = "done"
    /\ \E b \in Blocks :
          /\ b.style = "Heading" /\ b.level = 4
          /\ ExactlyHashes(LineOf(b), 4)
          /\ BlockText(b) # <<>>

----------------------------------------------------------------------------
(* C4 *)

PlainLine(t) ==
    /\ t # <<>>
    /\ \A n \in 1..4 : ~ExactlyHashes(t, n)
    /\ ~FenceRule(t)
    /\ ~BulletRule(t)
    /\ ~NumberedRule(t)

\* C4: a classified line that is non-empty and matches none of the heading,
\* fence, bullet and numbered rules appends exactly one paragraph; with k
\* backticks it has k + 1 runs, run j plain for even j and Courier New for odd
\* j (0-based), and the runs' texts together are the line without backticks.
C4_ParagraphRuns ==
    [][(InLoop /\ PlainLine(line)) =>
          /\ AppendsOne
          /\ Appended.style = "Normal"
          /\ Len(Appended.runs) = Backticks(line) + 1
          /\ \A j \in 1..Len(Appended.runs) :
                Appended.runs[j].font =
                    IF (j - 1) % 2 = 0 THEN "default" ELSE "Courier New"
          /\ BlockText(Appended) = NoBackticks(line)]_vars

C4_Witness ==
    /\ pc = "done"
    /\ \E b \in Blocks :
          /\ b.style = "Normal"
          /\ PlainLine(LineOf(b))
          /\ Backticks(LineOf(b)) = 2
          /\ Len(b.runs) = 3
          /\ b.runs[1].text = <<>>

----------------------------------------------------------------------------
(* C5 *)

IsCode(b) == b.style = "No Spacing"

\* the body lines of code block b, as 0-based line numbers
BodyOf(b) == (b.at + 1)..(b.at + BodyCount(b.at))

\* the input is exactly an opening fence, n >= 1 body lines, a closing fence
OneFenceInput ==
    /\ Len(lines) >= 3
    /\ FenceAt(0)
    /\ FenceAt(Len(lines) - 1)
    /\ \A m \in 1..(Len(lines) - 2) : ~FenceAt(m)

C5_Step ==
    (InLoop /\ FenceRule(line) /\ BodyCount(i) >= 1) =>
        /\ AppendsOne
        /\ IsCode(Appended)
        /\ BlockText(Appended) = RawText(i + 1, i + BodyCount(i))
        /\ \A j \in 1..Len(Appended.runs) : Appended.runs[j].font = "Courier New"

C5_BodyNotEmitted ==
    \A b \in Blocks : IsCode(b) => \A c \in Blocks : c.at \notin BodyOf(b)

C5_OneFenceOneBlock ==
    (pc = "done" /\ OneFenceInput) =>
        /\ Len(doc) = 1
        /\ IsCode(doc[1])
        /\ BlockText(doc[1]) = RawText(1, Len(lines) - 2)

\* C5: a fence with n >= 1 body lines appends exactly one code block whose
\* text is the raw body lines one after the other with nothing between them;
\* no body line is the start of any block; and the input made of an opening
\* fence, the body and a closing fence gives exactly that one block.
C5_CodeBlockText ==
    /\ [][C5_Step]_vars
    /\ [](C5_BodyNotEmitted /\ C5_OneFenceOneBlock)

C5_Witness ==
    /\ pc = "done"
    /\ OneFenceInput
    /\ Len(lines) = 4
    /\ lines[2] # <<>> /\ lines[3] # <<>>
    /\ BlockText(doc[1]) = lines[2] \o lines[3]

----------------------------------------------------------------------------
(* C6 *)

NumberedAppended == AppendsOne /\ Appended.style = "List Number"

\* C6: a classified non-empty line that is no heading, fence or bullet appends
\* a numbered-list item iff its first character is a digit and ". " lies
\* within its first 5 characters; the item text is what follows the first
\* ". " of the line.
C6_NumberedIff ==
    [][(/\ InLoop
        /\ line # <<>>
        /\ \A n \in 1..4 : ~ExactlyHashes(line, n)
        /\ ~FenceRule(line)
        /\ ~BulletRule(line)) =>
          /\ NumberedRule(line) <=> NumberedAppended
          /\ NumberedRule(line) => BlockText(Appended) = AfterDotSpace(line)
          /\ ~NumberedRule(line) => (AppendsOne /\ Appended.style = "Normal")]_vars

C6_Witness ==
    /\ pc = "done"
    /\ \E b \in Blocks :
          /\ b.style = "List Number"
          /\ SubSeq(LineOf(b), 1, 4) = <<"1", "0", ".", " ">>
          /\ BlockText(b) = DropFirst(LineOf(b), 4)
          /\ BlockText(b) # <<>>

----------------------------------------------------------------------------
(* C7 *)

\* the iteration at the cursor appends nothing: a blank line or an empty fence
EmitsNothing == line = <<>> \/ (FenceRule(line) /\ BodyCount(i) = 0)

C7_Step ==
    /\ InLoop => IF EmitsNothing THEN doc' = doc ELSE AppendsOne
    /\ pc = "loop" => (doc' = doc \/ AppendsOne)

C7_Ordered ==
    \A j, k \in 1..Len(doc) : j < k => doc[j].at < doc[k].at

C7_EmptyFence ==
    (pc = "done" /\ Len(lines) = 2 /\ FenceAt(0) /\ FenceAt(1)) => doc = <<>>

\* C7: every iteration of the main loop keeps the blocks emitted so far and
\* appends exactly one, or none on a blank line and on a fence without body
\* lines; the lines the blocks start at are strictly increasing; an opening
\* fence directly followed by a closing fence gives no block.
C7_AppendOnly ==
    /\ [][C7_Step]_vars
    /\ [](C7_Ordered /\ C7_EmptyFence)

C7_Witness ==
    /\ pc = "done"
    /\ Len(lines) = 4
    /\ lines[1] = <<>>
    /\ FenceAt(2) /\ FenceAt(3)
    /\ iters = 4
    /\ Len(doc) = 1
    /\ doc[1].at = 1

----------------------------------------------------------------------------
(* C8 *)

Success ==
    "Successfully converted BONZAI_COMPREHENSIVE_SUMMARY.md to BONZAI_COMPREHENSIVE_SUMMARY.docx"

Printed(msg) == \E k \in 1..Len(stdout) : stdout[k] = msg

\* C8: the document is saved only after both checks passed.  Without the
\* input file the program prints an error, exits non-zero, never enters
\* convert_markdown_to_word and never writes the output; without the libraries
\* it exits non-zero before any conversion; only a run that passed both
\* reaches the save and the success message.
C8_SaveOnlyAfterChecks ==
    /\ fs_docx.exists => (libs_ok /\ fs_md.exists /\ pc = "done")
    /\ Printed(Success) => (libs_ok /\ fs_md.exists /\ pc = "done")
    /\ ~fs_md.exists => (pc \in {"import", "main", "exit"} /\ ~fs_docx.exists)
    /\ ~libs_ok => (pc \in {"import", "exit"} /\ ~fs_docx.exists)
    /\ pc = "exit" =>
          /\ exit_code = 1
          /\ stdout # <<>>
          /\ ~libs_ok \/ ~fs_md.exists
          /\ lines = <<>> /\ doc = <<>> /\ iters = 0
    /\ pc = "done" => (fs_docx.exists /\ Printed(Success) /\ exit_code = 0)

C8_Witness ==
    /\ pc = "exit"
    /\ libs_ok
    /\ ~fs_md.exists
    /\ stdout = <<"Error: BONZAI_COMPREHENSIVE_SUMMARY.md not found">>

----------------------------------------------------------------------------
(* C9 *)

C9_Step ==
    /\ i' >= i
    /\ InLoop =>
          i' = i + (IF FenceRule(line) THEN BodyCount(i) + 1 ELSE 1)

\* C9: the cursor never decreases and stays within 0..len(lines); an
\* iteration on an ordinary line advances it by 1, an iteration on an opening
\* fence with n body lines by n + 1.
C9_CursorAdvance ==
    /\ [][C9_Step]_vars
    /\ [](i \in 0..Len(lines))

C9_Witness ==
    /\ pc = "loop"
    /\ iters = 1
    /\ i = 3
    /\ Len(lines) = 4
    /\ FenceAt(0) /\ FenceAt(3)

----------------------------------------------------------------------------
(* C10 *)

Terminated == pc \in {"done", "exit"}

\* the fence that made code block b is never closed
Unclosed(b) == \A m \in (b.at + 1)..(Len(lines) - 1) : ~FenceAt(m)

C10_Safe ==
    /\ iters <= Len(lines)
    /\ InLoop => Kind(line) # "IndexError"
    /\ pc = "loop" => i <= Len(lines)
    /\ pc = "done" =>
          /\ i = Len(lines)
          /\ fs_docx = [exists |-> TRUE, blocks |-> doc]
          /\ \A b \in Blocks :
                (IsCode(b) /\ Unclosed(b)) =>
                    /\ b = doc[Len(doc)]
                    /\ BlockText(b) = RawText(b.at + 1, Len(lines) - 1)

\* C10: for every input the program terminates; the main loop runs at most
\* len(lines) iterations, ends with the cursor equal to len(lines), reads no
\* line[0] of an empty line and no lines[i] past the end; a fence that is
\* never closed takes all the lines after it into one code block, and the
\* document is then saved.
C10_Terminates ==
    /\ []C10_Safe
    /\ <>Terminated

C10_Witness ==
    /\ pc = "done"
    /\ Len(lines) = 3
    /\ FenceAt(0) /\ ~FenceAt(1) /\ ~FenceAt(2)
    /\ lines[2] # <<>>
    /\ Len(doc) = 1
    /\ fs_docx.blocks = doc

====
